---- MODULE Spec2Model ----
(***************************************************************************)
(* Model of the dating backend in src/main.py and src/schemas.py: the      *)
(* handlers create_user, list_users, like_user, get_matches, send_message  *)
(* and list_messages over the collections "user", "like", "match" and      *)
(* "message" of the document store.                                        *)
(*                                                                         *)
(* Spec      the matching engine: like_user and get_matches, one request   *)
(*           at a time (each completes before the next starts).            *)
(* SpecGate  the conversation gate: send_message and list_messages on the  *)
(*           matches like_user creates, one request at a time.             *)
(* SpecConc  two workers run like_user store call by store call,           *)
(*           interleaved arbitrarily.                                      *)
(* SpecSend  two workers run send_message store call by store call,        *)
(*           interleaved arbitrarily, with list_messages in between.       *)
(* SpecAll   every handler, one request at a time.                         *)
(* SpecIds   like_user and get_matches with the empty string among the     *)
(*           identifiers, one request at a time.                           *)
(***************************************************************************)
EXTENDS Integers, Sequences, FiniteSets, TLC

\* ---------------------------------------------------------------- bounds
MaxRows == 4        \* rows the collections other than "match" may hold together

\* ----------------------------------------------------- program constants
MinTextLen == 1
MaxTextLen == 1000
MinNameLen == 1
MaxNameLen == 60
MaxBioLen == 280

\* --------------------------------------------------------------- inputs
\* Identifiers a payload may carry: the handlers take any string and never
\* look it up in the "user" collection.
UserIds == {"alice", "bob", "carol"}

\* A text is modelled by its length, the only thing the code reads of it.
Texts == {0, MaxTextLen, MaxTextLen + 1}

\* ----------------------------------------------- identifiers and strings
\* An ObjectId is a positive number. A string handed in as an id is
\* either the 24 hex digits of ObjectId n (the digits a-f written in lower
\* case, or in upper case: both parse to n) or no ObjectId at all.
Hex(n, up) == [n |-> n, up |-> up]
NotHex == [n |-> 0, up |-> FALSE]
InvalidId(s) == s.n = 0
ObjectId(s) == s.n
str(oid) == Hex(oid, FALSE)

None == [_id |-> 0]

Min(S) == CHOOSE x \in S : \A y \in S : x <= y

\* ------------------------------------------------------ the document store
VARIABLES users, likes, matches, messages, clock, last, proc

store == <<users, likes, matches, messages, clock>>
vars == <<users, likes, matches, messages, clock, last, proc>>

\* The workers that serve the requests, and a worker between two requests.
Procs == {"w1", "w2"}

Idle == [pc |-> "idle", payload |-> None, id |-> None, match_doc |-> None,
         now |-> 0]

\* Rows not yet inserted that the requests in flight will insert.
Pending == Cardinality({p \in Procs : proc[p].pc \in {"stamp", "insert_message"}})

Room == Len(users) + Len(likes) + Len(messages) + Pending < MaxRows

\* insert_one: the row gets the collection's next ObjectId.
create_document(coll, data) ==
    Append(coll, [_id |-> Len(coll) + 1] @@ data)

inserted_id(coll) == str(Len(coll))

\* find_one: the first row, in insertion order, among those the filter
\* accepts (hits: their places in the collection).
find_one(coll, hits) ==
    IF hits = {} THEN None ELSE coll[Min(hits)]

\* find: all the rows the filter accepts, in insertion order.
find(coll, hits) ==
    LET keep(d) == \E i \in hits : coll[i] = d IN SelectSeq(coll, keep)

find_by_id(coll, s) ==
    find_one(coll, {i \in DOMAIN coll : coll[i]._id = ObjectId(s)})

to_str_id(doc) ==
    IF doc = None THEN doc
    ELSE [f \in (DOMAIN doc \ {"_id"}) \cup {"id"} |->
            IF f = "id" THEN str(doc._id) ELSE doc[f]]

\* ------------------------------------------------------------- schemas
\* A name and a bio are modelled by their lengths; bio 0 is the absent bio.
UserValid(payload) ==
    /\ payload.name >= MinNameLen /\ payload.name <= MaxNameLen
    /\ payload.gender \in {"male", "female"}
    /\ payload.seeking \in {"male", "female", "both"}
    /\ payload.bio <= MaxBioLen

UserSchema(payload) ==
    [name |-> payload.name, gender |-> payload.gender,
     seeking |-> payload.seeking, bio |-> payload.bio]

LikeSchema(payload) ==
    [liker_id |-> payload.liker_id, liked_id |-> payload.liked_id]

MatchSchema(user1_id, user2_id, allow_both_first_move) ==
    [user1_id |-> user1_id, user2_id |-> user2_id,
     allow_both_first_move |-> allow_both_first_move]

\* The text checked for min_length alone.
MessageValid_no_max(payload) == payload.text >= MinTextLen

MessageValid(payload) ==
    payload.text >= MinTextLen /\ payload.text <= MaxTextLen

MessageSchema(payload) ==
    [match_id |-> payload.match_id, sender_id |-> payload.sender_id,
     text |-> payload.text]

\* ------------------------------------------------------------- responses
Response(op, req, status, error, body) ==
    [op |-> op, req |-> req, status |-> status, error |-> error, body |-> body]

\* ----------------------------------------------- create_user, list_users
create_user(payload) ==
    IF ~UserValid(payload)
    THEN /\ last' = Response("create_user", payload, 500, "ValidationError", None)
         /\ UNCHANGED <<store, proc>>
    ELSE /\ Room
         /\ LET users1 == create_document(users, UserSchema(payload))
                doc == find_by_id(users1, inserted_id(users1))
            IN  /\ users' = users1
                /\ last' = Response("create_user", payload, 200, "none", to_str_id(doc))
         /\ UNCHANGED <<likes, matches, messages, clock, proc>>

\* get_documents("user"): every row of the collection.
list_users ==
    /\ last' = Response("list_users", None, 200, "none",
                        [i \in DOMAIN users |-> to_str_id(users[i])])
    /\ UNCHANGED <<store, proc>>

\* ------------------------------------------------------------- like_user
\* like_user without its first check.
SelfLike_unchecked(payload) == FALSE

SelfLike(payload) == payload.liker_id = payload.liked_id

\* The lookup with liker and liked not swapped: it finds the Like just made.
reciprocal_same_direction(coll, payload) ==
    find_one(coll, {i \in DOMAIN coll :
                      /\ coll[i].liker_id = payload.liker_id
                      /\ coll[i].liked_id = payload.liked_id})

\* The lookup with liked_id in both fields: no stored Like answers it.
reciprocal_wrong_field(coll, payload) ==
    find_one(coll, {i \in DOMAIN coll :
                      /\ coll[i].liker_id = payload.liked_id
                      /\ coll[i].liked_id = payload.liked_id})

reciprocal(coll, payload) ==
    find_one(coll, {i \in DOMAIN coll :
                      /\ coll[i].liker_id = payload.liked_id
                      /\ coll[i].liked_id = payload.liker_id})

\* The lookup of the Match in the orientation of this like alone.
existing_one_ordering(coll, payload) ==
    find_one(coll, {i \in DOMAIN coll :
                      /\ coll[i].user1_id = payload.liker_id
                      /\ coll[i].user2_id = payload.liked_id})

existing(coll, payload) ==
    find_one(coll, {i \in DOMAIN coll :
        \/ coll[i].user1_id = payload.liker_id /\ coll[i].user2_id = payload.liked_id
        \/ coll[i].user1_id = payload.liked_id /\ coll[i].user2_id = payload.liker_id})

\* The Match in the orientation of the first like, not of the triggering one.
NewMatch_first_like(payload) == MatchSchema(payload.liked_id, payload.liker_id, TRUE)

NewMatch(payload) == MatchSchema(payload.liker_id, payload.liked_id, TRUE)

\* A Like that is in the store already is not inserted again.
new_like_once(coll, payload) ==
    IF \E i \in DOMAIN coll : /\ coll[i].liker_id = payload.liker_id
                              /\ coll[i].liked_id = payload.liked_id
    THEN coll
    ELSE create_document(coll, LikeSchema(payload))

\* One Like per liker: a later like overwrites the liker's earlier one.
new_like_upsert(coll, payload) ==
    LET own == {i \in DOMAIN coll : coll[i].liker_id = payload.liker_id}
    IN  IF own = {} THEN create_document(coll, LikeSchema(payload))
        ELSE [coll EXCEPT ![Min(own)].liked_id = payload.liked_id]

new_like(coll, payload) == create_document(coll, LikeSchema(payload))

LikeResult(like_doc, match_doc) ==
    IF match_doc = None THEN [like |-> to_str_id(like_doc)]
    ELSE [like |-> to_str_id(like_doc), match |-> to_str_id(match_doc)]

\* The reverse lookup without the liked user: any Like of the liker counts,
\* and the Match is made with whoever sent it.
like_user_any_admirer(payload) ==
    IF SelfLike(payload)
    THEN /\ last' = Response("like_user", payload, 400, "SelfLikeError", None)
         /\ UNCHANGED <<store, proc>>
    ELSE /\ Room
         /\ LET likes1 == new_like(likes, payload)
                rec == find_one(likes1, {i \in DOMAIN likes1 :
                                           likes1[i].liked_id = payload.liker_id})
                other == [liker_id |-> payload.liker_id, liked_id |-> rec.liker_id]
                ex == IF rec = None THEN None ELSE existing(matches, other)
                matches1 == IF rec # None /\ ex = None
                            THEN create_document(matches, NewMatch(other))
                            ELSE matches
                match_doc == IF rec = None THEN None
                             ELSE IF ex = None
                                  THEN find_by_id(matches1, inserted_id(matches1))
                                  ELSE ex
            IN  /\ likes' = likes1
                /\ matches' = matches1
                /\ last' = Response("like_user", payload, 200, "none",
                                    LikeResult(find_by_id(likes1, inserted_id(likes1)),
                                               match_doc))
         /\ UNCHANGED <<users, messages, clock, proc>>

\* The handler run from its first line to its return, nothing in between.
like_user(payload) ==
    IF SelfLike(payload)
    THEN /\ last' = Response("like_user", payload, 400, "SelfLikeError", None)
         /\ UNCHANGED <<store, proc>>
    ELSE /\ Room
         /\ LET likes1 == new_like(likes, payload)
                like_id == inserted_id(likes1)
                rec == reciprocal(likes1, payload)
                ex == IF rec = None THEN None ELSE existing(matches, payload)
                matches1 == IF rec # None /\ ex = None
                            THEN create_document(matches, NewMatch(payload))
                            ELSE matches
                match_doc == IF rec = None THEN None
                             ELSE IF ex = None
                                  THEN find_by_id(matches1, inserted_id(matches1))
                                  ELSE ex
                like_doc == find_by_id(likes1, like_id)
            IN  /\ likes' = likes1
                /\ matches' = matches1
                /\ last' = Response("like_user", payload, 200, "none",
                                    LikeResult(like_doc, match_doc))
         /\ UNCHANGED <<users, messages, clock, proc>>

\* ------------------------------------------------------------ get_matches
\* The filter on user1_id alone.
get_matches_user1_only(user_id) ==
    LET docs == find(matches, {i \in DOMAIN matches : matches[i].user1_id = user_id})
    IN  /\ last' = Response("get_matches", [user_id |-> user_id], 200, "none",
                            [i \in DOMAIN docs |-> to_str_id(docs[i])])
        /\ UNCHANGED <<store, proc>>

get_matches(user_id) ==
    LET docs == find(matches, {i \in DOMAIN matches :
                        \/ matches[i].user1_id = user_id
                        \/ matches[i].user2_id = user_id})
    IN  /\ last' = Response("get_matches", [user_id |-> user_id], 200, "none",
                            [i \in DOMAIN docs |-> to_str_id(docs[i])])
        /\ UNCHANGED <<store, proc>>

\* ----------------------------------------------------------- send_message
\* The membership check left out: anyone may send.
participants_anyone(match) == UserIds

\* Only the user the match was created for may send.
participants_user1_only(match) == {match.user1_id}

participants(match) == {match.user1_id, match.user2_id}

\* The exception send_message leaves with, "none" when it reaches the insert.
send_error(coll, payload) ==
    IF InvalidId(payload.match_id) THEN "InvalidId"
    ELSE LET match == find_by_id(coll, payload.match_id)
         IN  IF match = None THEN "MatchNotFoundError"
             ELSE IF payload.sender_id \notin participants(match)
                  THEN "NotParticipantError"
                  ELSE IF ~MessageValid(payload) THEN "ValidationError"
                       ELSE "none"

status_of(error) ==
    CASE error = "none" -> 200
      [] error = "SelfLikeError" -> 400
      [] error = "MatchNotFoundError" -> 404
      [] error = "NotParticipantError" -> 403
      [] OTHER -> 500

\* The store layer stamps the row with the time it reads.
stamped(data, now) == [created_at |-> now] @@ data

\* The time a request reads is no earlier than the latest one read before.
Times == {clock, clock + 1}

send_message(payload) ==
    LET error == send_error(matches, payload)
    IN  IF error # "none"
        THEN /\ last' = Response("send_message", payload, status_of(error), error, None)
             /\ UNCHANGED <<store, proc>>
        ELSE /\ Room
             /\ \E now \in Times :
                  LET messages1 == create_document(messages,
                                       stamped(MessageSchema(payload), now))
                      doc == find_by_id(messages1, inserted_id(messages1))
                  IN  /\ messages' = messages1
                      /\ clock' = now
                      /\ last' = Response("send_message", payload, 200, "none",
                                          to_str_id(doc))
             /\ UNCHANGED <<users, likes, matches, proc>>

\* ---------------------------------------------------------- list_messages
IsPermutation(s, t) ==
    /\ Len(s) = Len(t)
    /\ \E f \in [DOMAIN s -> DOMAIN s] :
          /\ \A i, j \in DOMAIN s : i # j => f[i] # f[j]
          /\ \A i \in DOMAIN s : s[i] = t[f[i]]

\* The rows as the store holds them, not sorted.
sort_none(docs) == {docs}

Ascending(s) == \A i, j \in DOMAIN s : i < j => s[i].created_at <= s[j].created_at

\* sort("created_at", 1): the orders the store may return the rows in; rows
\* with equal creation times come in either order.
sort(docs) ==
    {s \in [DOMAIN docs -> {docs[i] : i \in DOMAIN docs}] :
        IsPermutation(s, docs) /\ Ascending(s)}

list_messages(match_id) ==
    LET docs == find(messages, {i \in DOMAIN messages :
                        messages[i].match_id = match_id})
    IN  \E msgs \in sort(docs) :
            /\ last' = Response("list_messages", [match_id |-> match_id], 200, "none",
                                [i \in DOMAIN msgs |-> to_str_id(msgs[i])])
            /\ UNCHANGED <<store, proc>>

\* ------------------------------------------------------------------ Spec
Init ==
    /\ users = <<>>
    /\ likes = <<>>
    /\ matches = <<>>
    /\ messages = <<>>
    /\ clock = 0
    /\ last = Response("none", None, 200, "none", None)
    /\ proc = [p \in Procs |-> Idle]

LikePayloads(ids) == [liker_id : ids, liked_id : ids]

\* The ids of the matches in the store, each in both spellings, an id that
\* is in no store, and a string that is no ObjectId.
MatchIds ==
    {Hex(n, up) : n \in 1..Len(matches), up \in BOOLEAN}
        \cup {Hex(Len(matches) + 1, FALSE), NotHex}

MessagePayloads == [match_id : MatchIds, sender_id : UserIds, text : Texts]

Next ==
    \/ \E payload \in LikePayloads(UserIds) : like_user(payload)
    \/ \E user_id \in UserIds : get_matches(user_id)

Spec == Init /\ [][Next]_vars

\* -------------------------------------------------------------- SpecGate
\* The two users whose likes make the match the messages are sent on.
Likers == {"alice", "bob"}

NextGate ==
    \/ \E payload \in LikePayloads(Likers) : like_user(payload)
    \/ \E payload \in MessagePayloads : send_message(payload)
    \/ \E match_id \in MatchIds : list_messages(match_id)

SpecGate == Init /\ [][NextGate]_vars

\* -------------------------------------------------------------- SpecConc
\* Two workers serve requests at once. A step is one store call together
\* with the handler's own code up to the next store call.
\* The requests the workers serve: likes between the two users, and their
\* messages, of a valid text, on the matches in the store and on one that is
\* in no store.
ConcMatchIds == {Hex(n, FALSE) : n \in 1..(Len(matches) + 1)}

ConcMessagePayloads ==
    [match_id : ConcMatchIds, sender_id : Likers, text : {MaxTextLen}]

Free(p) == proc[p].pc = "idle"

Goto(p, pc, payload, id, match_doc, now) ==
    proc' = [proc EXCEPT ![p] = [pc |-> pc, payload |-> payload, id |-> id,
                                 match_doc |-> match_doc, now |-> now]]

\* The worker answers and is free for the next request.
Return(p, resp) ==
    /\ proc' = [proc EXCEPT ![p] = Idle]
    /\ last' = resp

\* like_user, lines 98-102: the self-like check and the insert of the Like.
LikeInsert(p, payload) ==
    /\ Free(p)
    /\ IF SelfLike(payload)
       THEN /\ Return(p,
                      Response("like_user", payload, 400, "SelfLikeError", None))
            /\ UNCHANGED store
       ELSE /\ Room
            /\ likes' = new_like(likes, payload)
            /\ Goto(p, "find_reciprocal", payload, inserted_id(likes'), None, 0)
            /\ UNCHANGED <<users, matches, messages, clock, last>>

\* like_user going on to the Match whether or not the reverse Like is there.
FindReciprocal_unchecked(p) ==
    /\ proc[p].pc = "find_reciprocal"
    /\ Goto(p, "find_existing", proc[p].payload, proc[p].id, None, 0)
    /\ UNCHANGED <<store, last>>

\* like_user, lines 105-110.
FindReciprocal(p) ==
    /\ proc[p].pc = "find_reciprocal"
    /\ IF reciprocal(likes, proc[p].payload) = None
       THEN Goto(p, "read_like", proc[p].payload, proc[p].id, None, 0)
       ELSE Goto(p, "find_existing", proc[p].payload, proc[p].id, None, 0)
    /\ UNCHANGED <<store, last>>

\* like_user, lines 112-118 and 123-124.
FindExisting(p) ==
    /\ proc[p].pc = "find_existing"
    /\ LET ex == existing(matches, proc[p].payload)
       IN  IF ex = None
           THEN Goto(p, "insert_match", proc[p].payload, proc[p].id, None, 0)
           ELSE Goto(p, "read_like", proc[p].payload, proc[p].id, ex, 0)
    /\ UNCHANGED <<store, last>>

\* like_user, lines 120-122: the insert of the Match and its read back.
InsertMatch(p) ==
    /\ proc[p].pc = "insert_match"
    /\ matches' = create_document(matches, NewMatch(proc[p].payload))
    /\ Goto(p, "read_like", proc[p].payload, proc[p].id,
            find_by_id(matches', inserted_id(matches')), 0)
    /\ UNCHANGED <<users, likes, messages, clock, last>>

\* like_user, lines 126-130.
ReadLike(p) ==
    /\ proc[p].pc = "read_like"
    /\ Return(p,
              Response("like_user", proc[p].payload, 200, "none",
                       LikeResult(find_by_id(likes, proc[p].id), proc[p].match_doc)))
    /\ UNCHANGED store

\* send_message, lines 153-162: the lookup of the Match and the checks.
SendCheck(p, payload) ==
    /\ Free(p)
    /\ LET error == send_error(matches, payload)
       IN  IF error # "none"
           THEN Return(p,
                       Response("send_message", payload, status_of(error), error, None))
           ELSE Room /\ Goto(p, "stamp", payload, None, None, 0) /\ UNCHANGED last
    /\ UNCHANGED store

\* create_document: the store layer reads the time ...
Stamp(p) ==
    /\ proc[p].pc = "stamp"
    /\ \E now \in Times :
          /\ clock' = now
          /\ Goto(p, "insert_message", proc[p].payload, None, None, now)
    /\ UNCHANGED <<users, likes, matches, messages, last>>

\* ... and then inserts the row.
InsertMessage(p) ==
    /\ proc[p].pc = "insert_message"
    /\ messages' = create_document(messages,
                       stamped(MessageSchema(proc[p].payload), proc[p].now))
    /\ Goto(p, "read_message", proc[p].payload, inserted_id(messages'), None, 0)
    /\ UNCHANGED <<users, likes, matches, clock, last>>

\* send_message, lines 164-165.
ReadMessage(p) ==
    /\ proc[p].pc = "read_message"
    /\ Return(p,
              Response("send_message", proc[p].payload, 200, "none",
                       to_str_id(find_by_id(messages, proc[p].id))))
    /\ UNCHANGED store

\* The workers run like_user.
NextConc ==
    \/ \E p \in Procs, payload \in LikePayloads(Likers) : LikeInsert(p, payload)
    \/ \E p \in Procs : FindReciprocal(p)
    \/ \E p \in Procs : FindExisting(p)
    \/ \E p \in Procs : InsertMatch(p)
    \/ \E p \in Procs : ReadLike(p)

SpecConc == Init /\ [][NextConc]_vars

\* -------------------------------------------------------------- SpecSend
\* The workers run send_message on the matches like_user creates, and
\* list_messages reads the messages in between.
NextSend ==
    \/ \E payload \in LikePayloads(Likers) : like_user(payload)
    \/ \E p \in Procs, payload \in ConcMessagePayloads : SendCheck(p, payload)
    \/ \E p \in Procs : Stamp(p)
    \/ \E p \in Procs : InsertMessage(p)
    \/ \E p \in Procs : ReadMessage(p)
    \/ \E match_id \in ConcMatchIds : list_messages(match_id)

SpecSend == Init /\ [][NextSend]_vars

\* --------------------------------------------------------------- SpecAll
\* Profiles: one that passes the validation and some that do not.
Profile == [name |-> MaxNameLen, gender |-> "female", seeking |-> "both", bio |-> 0]

UserPayloads ==
    {Profile, [Profile EXCEPT !.name = 0], [Profile EXCEPT !.gender = "other"],
     [Profile EXCEPT !.bio = MaxBioLen + 1]}

\* Messages, of a valid text, on the matches in the store and on one that is
\* in no store.
AllMessagePayloads ==
    [match_id : ConcMatchIds, sender_id : UserIds, text : {MaxTextLen}]

NextAll ==
    \/ \E payload \in UserPayloads : create_user(payload)
    \/ list_users
    \/ \E payload \in LikePayloads(UserIds) : like_user(payload)
    \/ \E user_id \in UserIds : get_matches(user_id)
    \/ \E payload \in AllMessagePayloads : send_message(payload)
    \/ \E match_id \in ConcMatchIds : list_messages(match_id)

SpecAll == Init /\ [][NextAll]_vars

\* --------------------------------------------------------------- SpecIds
\* LikePayload takes any string for an id, the empty one too.
AnyIds == {"", "alice", "bob"}

NextIds ==
    \/ \E payload \in LikePayloads(AnyIds) : like_user(payload)
    \/ \E user_id \in AnyIds : get_matches(user_id)

SpecIds == Init /\ [][NextIds]_vars

\* ================================================================ claims
LikeCount(a, b) ==
    Cardinality({i \in DOMAIN likes : likes[i].liker_id = a /\ likes[i].liked_id = b})

MatchesOf(a, b) ==
    {i \in DOMAIN matches :
        \/ matches[i].user1_id = a /\ matches[i].user2_id = b
        \/ matches[i].user1_id = b /\ matches[i].user2_id = a}

\* C1: with requests served one at a time, once a Like a->b and a Like b->a
\* are in the store (a # b), exactly one Match exists for the pair {a, b},
\* however many further likes either of them sends.
C1_ExactlyOneMatch ==
    \A a, b \in UserIds :
        (a # b /\ LikeCount(a, b) > 0 /\ LikeCount(b, a) > 0)
            => Cardinality(MatchesOf(a, b)) = 1

\* A third and a fourth like, one in each orientation, after the match.
C1_Witness ==
    /\ LikeCount("alice", "bob") = 2
    /\ LikeCount("bob", "alice") = 2
    /\ Cardinality(MatchesOf("alice", "bob")) = 1

\* C2: in every state, also with the store calls of concurrent like_user
\* requests interleaved, at most one Match exists for an unordered pair,
\* counting both orderings of user1_id and user2_id.
C2_AtMostOneMatch ==
    \A a, b \in UserIds : Cardinality(MatchesOf(a, b)) <= 1

\* C3: like_user(a, a) answers SelfLikeError (400) and writes nothing.
C3_SelfLikeRejected ==
    [][(last'.op = "like_user" /\ last'.req.liker_id = last'.req.liked_id)
          => /\ last'.error = "SelfLikeError"
             /\ last'.status = 400
             /\ UNCHANGED <<likes, matches, messages>>]_vars

C3_Witness ==
    /\ last.op = "like_user"
    /\ last.req = [liker_id |-> "bob", liked_id |-> "bob"]
    /\ last.error = "SelfLikeError"
    /\ Len(likes) = 2
    /\ Len(matches) = 1

\* The Match rows a string handed in as a match_id refers to.
MatchesWithId(s) ==
    {j \in DOMAIN matches : ~InvalidId(s) /\ matches[j]._id = ObjectId(s)}

\* C4: every Message in the store refers to a Match in the store and was
\* sent by one of that Match's two users.
C4_MessagesOfParticipants ==
    \A i \in DOMAIN messages :
        \E j \in MatchesWithId(messages[i].match_id) :
            messages[i].sender_id \in {matches[j].user1_id, matches[j].user2_id}

\* Both users have sent, one of them with the id spelt in upper case.
C4_Witness ==
    /\ Len(messages) = 2
    /\ messages[1].match_id = Hex(1, TRUE)
    /\ messages[1].sender_id = "alice"
    /\ messages[2].sender_id = "bob"

\* C5: send_message with a match_id that no Match in the store has answers
\* MatchNotFoundError (404), whatever the sender and the text, and stores
\* no Message.
C5_MissingMatchNotFound ==
    [][(last'.op = "send_message" /\ MatchesWithId(last'.req.match_id) = {})
          => /\ last'.error = "MatchNotFoundError"
             /\ last'.status = 404
             /\ messages' = messages]_vars

\* C6: on a Match in the store and with a valid text, send_message answers
\* NotParticipantError (403) and stores nothing for a sender who is neither
\* of the Match's users, and stores the Message for either of its users,
\* whoever sends first and whatever allow_both_first_move is.
C6_OnlyParticipantsSend ==
    [][(/\ last'.op = "send_message"
        /\ MatchesWithId(last'.req.match_id) # {}
        /\ last'.req.text \in MinTextLen..MaxTextLen)
          => \A j \in MatchesWithId(last'.req.match_id) :
                IF last'.req.sender_id \in {matches[j].user1_id, matches[j].user2_id}
                THEN /\ last'.status = 200
                     /\ Len(messages') = Len(messages) + 1
                     /\ SubSeq(messages', 1, Len(messages)) = messages
                     /\ LET new == messages'[Len(messages')]
                        IN  /\ new.match_id = last'.req.match_id
                            /\ new.sender_id = last'.req.sender_id
                            /\ new.text = last'.req.text
                            /\ last'.body.id = str(new._id)
                ELSE /\ last'.error = "NotParticipantError"
                     /\ last'.status = 403
                     /\ messages' = messages]_vars

\* The second user of the match sent first, the first one after, and a third
\* user was refused.
C6_Witness ==
    /\ Len(messages) = 2
    /\ messages[1].sender_id = matches[1].user2_id
    /\ messages[2].sender_id = matches[1].user1_id
    /\ last.op = "send_message"
    /\ last.req = [match_id |-> Hex(1, FALSE), sender_id |-> "carol", text |-> MaxTextLen]
    /\ last.error = "NotParticipantError"

\* C7: a Match that like_user creates has the liker of the triggering like
\* as user1_id, the liked one as user2_id and allow_both_first_move = true;
\* it is created only when the reverse Like is in the store and no Match of
\* the pair is.
C7_NewMatchOrientation ==
    [][Len(matches') > Len(matches)
          => /\ last'.op = "like_user"
             /\ LikeCount(last'.req.liked_id, last'.req.liker_id) > 0
             /\ MatchesOf(last'.req.liker_id, last'.req.liked_id) = {}
             /\ Len(matches') = Len(matches) + 1
             /\ SubSeq(matches', 1, Len(matches)) = matches
             /\ LET new == matches'[Len(matches')]
                IN  /\ new.user1_id = last'.req.liker_id
                    /\ new.user2_id = last'.req.liked_id
                    /\ new.allow_both_first_move = TRUE]_vars

\* Alice likes Bob, then Bob likes Alice: user1_id = bob, user2_id = alice.
C7_Witness ==
    /\ Len(likes) = 2
    /\ likes[1].liker_id = "alice" /\ likes[1].liked_id = "bob"
    /\ likes[2].liker_id = "bob" /\ likes[2].liked_id = "alice"
    /\ Len(matches) = 1
    /\ matches[1].user1_id = "bob" /\ matches[1].user2_id = "alice"
    /\ matches[1].allow_both_first_move = TRUE

\* C8: a like_user that succeeds returns the Like it created, and a match
\* exactly when the reverse Like is in the store: none, and no new Match
\* row, without it; with it, the Match of the pair that is in the store
\* already, or else the one it creates.
C8_MatchIffReciprocal ==
    [][(last'.op = "like_user" /\ last'.status = 200)
          => LET x == last'.req.liker_id
                 y == last'.req.liked_id
                 body == last'.body
             IN  /\ body.like.id = str(Len(likes'))
                 /\ body.like.liker_id = x /\ body.like.liked_id = y
                 /\ ("match" \in DOMAIN body) <=> (LikeCount(y, x) > 0)
                 /\ (LikeCount(y, x) = 0) => matches' = matches
                 /\ (LikeCount(y, x) > 0) =>
                       /\ {body.match.user1_id, body.match.user2_id} = {x, y}
                       /\ IF MatchesOf(x, y) # {}
                          THEN /\ matches' = matches
                               /\ \E j \in MatchesOf(x, y) :
                                     body.match.id = str(matches[j]._id)
                          ELSE /\ Len(matches') = Len(matches) + 1
                               /\ body.match.id = str(matches'[Len(matches')]._id)]_vars

\* A like after the match returns the match that exists.
C8_Witness ==
    /\ last.op = "like_user"
    /\ last.req = [liker_id |-> "alice", liked_id |-> "bob"]
    /\ "match" \in DOMAIN last.body
    /\ last.body.match.user1_id = "bob"
    /\ Len(likes) = 3
    /\ Len(matches) = 1

\* The rows of a list_messages response: those of the store, with id for _id.
RowOf(doc) == [f \in (DOMAIN doc \ {"id"}) \cup {"_id"} |->
                  IF f = "_id" THEN ObjectId(doc.id) ELSE doc[f]]

\* C9: list_messages(match_id) returns the Messages stored under that
\* match_id, each once and no other, in non-decreasing order of creation
\* time, however the sends were interleaved.
C9_ListedInTimeOrder ==
    [][(last'.op = "list_messages" /\ UNCHANGED <<likes, matches, messages, proc>>)
          => LET body == last'.body
             IN  /\ \A i, j \in DOMAIN body :
                        i < j => body[i].created_at <= body[j].created_at
                 /\ \A i, j \in DOMAIN body : i # j => body[i].id # body[j].id
                 /\ {RowOf(body[i]) : i \in DOMAIN body}
                      = {messages[i] : i \in {k \in DOMAIN messages :
                              messages[k].match_id = last'.req.match_id}}]_vars

\* The message stamped later was inserted first; the list has them by time.
C9_Witness ==
    /\ Len(messages) = 2
    /\ messages[1].created_at > messages[2].created_at
    /\ messages[1].sender_id # messages[2].sender_id
    /\ last.op = "list_messages"
    /\ Len(last.body) = 2
    /\ last.body[1].created_at < last.body[2].created_at

\* C10: a like_user that succeeds adds one Like row, for its directed pair,
\* and at most one Match row, and touches no other row; a like that is in
\* the store already is added again.
C10_OneLikeRowPerCall ==
    [][(last'.op = "like_user" /\ last'.status = 200)
          => /\ Len(likes') = Len(likes) + 1
             /\ SubSeq(likes', 1, Len(likes)) = likes
             /\ likes'[Len(likes')].liker_id = last'.req.liker_id
             /\ likes'[Len(likes')].liked_id = last'.req.liked_id
             /\ Len(matches') \in {Len(matches), Len(matches) + 1}
             /\ SubSeq(matches', 1, Len(matches)) = matches
             /\ messages' = messages]_vars

\* The same like sent as often as the store has room for: a row for each.
C10_Witness ==
    /\ Len(likes) = MaxRows
    /\ LikeCount("alice", "bob") = MaxRows
    /\ matches = <<>>

\* The Match rows a user is part of.
UserMatches(u) ==
    {matches[j] : j \in {k \in DOMAIN matches :
                            matches[k].user1_id = u \/ matches[k].user2_id = u}}

\* C11: a request other than a like sent by u or to u (a like between other
\* users, a message on any match, a new profile, a list) leaves the Match
\* rows that u is part of as they were: none added, removed or changed.
C11_OthersKeepMatches ==
    [][\A u \in UserIds :
          ~(/\ last'.op = "like_user"
            /\ last'.req.liker_id = u \/ last'.req.liked_id = u)
             => UserMatches(u)' = UserMatches(u)]_vars

\* Carol is matched with alice; then bob and alice match, carol's row stays.
C11_Witness ==
    /\ Len(matches) = 2
    /\ UserMatches("carol") = {matches[1]}
    /\ matches[2].user1_id = "bob" /\ matches[2].user2_id = "alice"
    /\ last.op = "like_user"
    /\ last.req = [liker_id |-> "bob", liked_id |-> "alice"]

\* C12: get_matches(u) returns the Match rows with user1_id = u or
\* user2_id = u, each once, and no other row.
C12_MatchesOfUser ==
    (last.op = "get_matches")
        => /\ {RowOf(last.body[i]) : i \in DOMAIN last.body}
                = UserMatches(last.req.user_id)
           /\ Len(last.body) = Cardinality(UserMatches(last.req.user_id))

\* Alice is user2_id of one match and user1_id of another, carol is in no
\* other: alice gets both.
C12_Witness ==
    /\ last.op = "get_matches"
    /\ last.req.user_id = "alice"
    /\ Len(matches) = 2
    /\ matches[1].user2_id = "alice"
    /\ matches[2].user1_id = "alice"
    /\ Len(last.body) = 2

\* C13: send_message on a Match in the store, by one of its users, with a
\* text that is empty or longer than 1000 fails with ValidationError and
\* writes nothing to the store.
C13_BadTextNotStored ==
    [][(/\ last'.op = "send_message"
        /\ \E j \in MatchesWithId(last'.req.match_id) :
              last'.req.sender_id \in {matches[j].user1_id, matches[j].user2_id}
        /\ last'.req.text \notin MinTextLen..MaxTextLen)
          => /\ last'.error = "ValidationError"
             /\ UNCHANGED <<users, likes, matches, messages>>]_vars

\* A text of 1001 after a message that was stored.
C13_Witness ==
    /\ last.op = "send_message"
    /\ last.req = [match_id |-> Hex(1, FALSE), sender_id |-> "alice",
                   text |-> MaxTextLen + 1]
    /\ last.error = "ValidationError"
    /\ Len(messages) = 1

Prefix(old, new) ==
    /\ Len(old) <= Len(new)
    /\ SubSeq(new, 1, Len(old)) = old

\* C14: no request removes a User, Like, Match or Message row or changes
\* a field of one: every collection keeps the rows it has, as they are, and
\* only grows at its end.
C14_AppendOnly ==
    [][/\ Prefix(users, users')
       /\ Prefix(likes, likes')
       /\ Prefix(matches, matches')
       /\ Prefix(messages, messages')]_vars

\* Every collection holds a row, and requests have been served since.
C14_Witness ==
    /\ Len(users) = 1
    /\ Len(likes) = 2
    /\ Len(matches) = 1
    /\ Len(messages) = 1
    /\ last.op = "list_users"

\* C15: send_message checks the match, then the sender, then the text: with
\* no Match for the match_id it answers MatchNotFoundError whatever the
\* sender and the text are, and on a Match in the store a sender who is not
\* one of its users gets NotParticipantError whatever the text is.
C15_CheckOrder ==
    [][(last'.op = "send_message")
          => /\ (MatchesWithId(last'.req.match_id) = {})
                  => last'.error = "MatchNotFoundError"
             /\ \A j \in MatchesWithId(last'.req.match_id) :
                   (last'.req.sender_id \notin {matches[j].user1_id, matches[j].user2_id})
                      => last'.error = "NotParticipantError"]_vars

\* C16: like_user with an empty liker_id or an empty liked_id (the two
\* differ) is rejected and writes no Like row and no Match row.
C16_EmptyIdRejected ==
    [][(/\ last'.op = "like_user"
        /\ last'.req.liker_id = "" \/ last'.req.liked_id = ""
        /\ last'.req.liker_id # last'.req.liked_id)
          => /\ last'.status # 200
             /\ UNCHANGED <<likes, matches>>]_vars

InLike(p) ==
    proc[p].pc \in {"find_reciprocal", "find_existing", "insert_match", "read_like"}

\* C17: with the store calls of concurrent like_user calls interleaved in any
\* order, once no like_user call is in flight and Likes a->b and b->a are
\* stored, at least one Match for the pair {a, b} exists: two calls never
\* both miss each other's Like.
C17_NoLostMatch ==
    \A a, b \in Likers :
        (/\ a # b
         /\ \A p \in Procs : ~InLike(p)
         /\ LikeCount(a, b) > 0
         /\ LikeCount(b, a) > 0)
           => MatchesOf(a, b) # {}

\* Two overlapping calls have both completed: each found the other's Like
\* and each inserted a Match.
C17_Witness ==
    /\ \A p \in Procs : Free(p)
    /\ LikeCount("alice", "bob") = 1
    /\ LikeCount("bob", "alice") = 1
    /\ Cardinality(MatchesOf("alice", "bob")) = 2
    /\ last.op = "like_user"

\* C18: in every reachable state, calls in flight or not, every Match of x
\* and y has a stored Like x->y and a stored Like y->x.
C18_MatchBackedByLikes ==
    \A j \in DOMAIN matches :
        /\ LikeCount(matches[j].user1_id, matches[j].user2_id) > 0
        /\ LikeCount(matches[j].user2_id, matches[j].user1_id) > 0

\* A Match just inserted by a call that has not answered yet, while the
\* other worker is between its insert of a Like and its reverse lookup.
C18_Witness ==
    /\ Len(matches) = 1
    /\ \E p, q \in Procs :
          /\ proc[p].pc = "read_like"
          /\ proc[p].match_doc # None
          /\ proc[q].pc = "find_reciprocal"

\* C19: in every reachable state every Match has two distinct participants
\* and every Like has a liker different from the liked.
C19_DistinctParticipants ==
    /\ \A j \in DOMAIN matches : matches[j].user1_id # matches[j].user2_id
    /\ \A i \in DOMAIN likes : likes[i].liker_id # likes[i].liked_id

\* A self-like has been refused with a Like and a Match in the store.
C19_Witness ==
    /\ last.op = "like_user"
    /\ last.error = "SelfLikeError"
    /\ Len(likes) >= 2
    /\ Len(matches) >= 1
====
